---- MODULE Spec2Model ----
(***************************************************************************)
(* State-machine model of SuperConsole (src/src/superconsole.rs): the      *)
(* pending log queue `to_emit`, the render loop, the composition pass      *)
(* (render_with_mode / render_general), finalize and clear, driven against *)
(* an Output Sink whose every call is recorded in `sink`.                  *)
(***************************************************************************)
EXTENDS Integers, Sequences, FiniteSets, TLC

\* ------------------------------------------------------------------------
\* Program constants
MINIMUM_EMIT == 5
MAX_GRAPHEME_BUFFER == 1000000

\* ------------------------------------------------------------------------
\* Bounds of the model
MaxLines == 8        \* lines passed to emit over the whole run
MaxBatch == 6        \* lines passed to one emit call
MaxCalls == 3        \* calls of emit, render, finalize and clear over the
                     \* whole run (emit_now makes two)
MaxRows  == 7        \* tallest terminal tried
MaxFrame == 3        \* tallest frame the Frame Source draws

\* grapheme lengths of the lines tried: a long line and MINIMUM_EMIT short
\* ones sum to exactly the threshold, one more short line exceeds it
LineLens  == {1, MAX_GRAPHEME_BUFFER - MINIMUM_EMIT}
Rows      == {2, MaxRows}
FrameLens == {0, MaxFrame}


VARIABLES
    to_emit,          \* SuperConsole.to_emit : Vec<Line>
    default_size,     \* SuperConsole.default_size : Option<Dimensions>,
                      \* the rows of the fallback size
    sink,             \* the calls made on SuperConsole.output by the API
                      \* call in progress or last returned, in order
    delivered,        \* history: the log lines of every buffer the Output
                      \* Sink accepted, in write order
    pc,               \* "idle" | "render_loop" | "done" (self consumed)
    anything_emitted, \* local of render
    has_rendered,     \* local of render
    emitted,          \* history: every line passed to emit, in emit order
    failed,           \* history: some draw or some Output Sink write failed
    delayed,          \* history: how many lines at the head of to_emit were
                      \* queued when should_render last refused a render
    call,             \* history: the API call in progress or last returned
    pass,             \* history: the last composition pass
    ncalls            \* number of API calls made

vars == << to_emit, default_size, sink, delivered, pc, anything_emitted,
           has_rendered, emitted, failed, delayed, call, pass, ncalls >>

\* ------------------------------------------------------------------------
\* Helpers
Max(a, b) == IF a >= b THEN a ELSE b
Min(a, b) == IF a <= b THEN a ELSE b

\* Option<T>: None, Some(v); Result<T>: Err, Ok(v)
None == << >>
Some(v) == << v >>
Err == << >>
Ok(v) == << v >>

\* A Line: `id` stands for its content, `len` is what Line::len returns.
Line(id, len) == [id |-> id, len |-> len]

\* Bytes of a buffer, as tokens.
Tok(t, id, len) == [t |-> t, id |-> id, len |-> len]
LogTok(l) == Tok("log", l.id, l.len)

\* One call on the Output Sink.
SinkEvent(op, buffer, ret) == [op |-> op, buffer |-> buffer, ret |-> ret]

\* usize::saturating_sub
saturating_sub(a, b) == IF a > b THEN a - b ELSE 0

RECURSIVE SumLen(_)
SumLen(buf) == IF buf = << >> THEN 0 ELSE Head(buf).len + SumLen(Tail(buf))

\* Mutant of is_big: a queue of exactly the threshold counts as big.
is_big_AtThreshold(buf) == SumLen(buf) >= MAX_GRAPHEME_BUFFER

\* fn is_big(buf: &Lines) -> bool
is_big(buf) == SumLen(buf) > MAX_GRAPHEME_BUFFER

\* Mutants of Limit: the MINIMUM_EMIT floor forgotten; the oversized
\* heuristic forgotten; the draw mode ignored.
Limit_NoFloor(mode, q, rows, flen) ==
    IF mode = "Normal" /\ ~is_big(q)
    THEN Some(saturating_sub(rows, flen))
    ELSE None

Limit_NoBig(mode, q, rows, flen) ==
    IF mode = "Normal"
    THEN Some(Max(saturating_sub(rows, flen), MINIMUM_EMIT))
    ELSE None

Limit_NoMode(mode, q, rows, flen) ==
    IF ~is_big(q)
    THEN Some(Max(saturating_sub(rows, flen), MINIMUM_EMIT))
    ELSE None

\* let limit = match mode { ... }
Limit(mode, q, rows, flen) ==
    IF mode = "Normal" /\ ~is_big(q)
    THEN Some(Max(saturating_sub(rows, flen), MINIMUM_EMIT))
    ELSE None

\* LinesExt::render(&mut self, buffer, limit): drains up to `limit` lines
\* from the head, in order, into the buffer.
LinesExt_render(lines, limit) ==
    LET amt == IF limit = None THEN Len(lines) ELSE Min(limit[1], Len(lines))
    IN  [out  |-> [i \in 1..amt |-> LogTok(lines[i])],
         rest |-> SubSeq(lines, amt + 1, Len(lines))]

\* The frame Canvas::draw returned, rendered by frame.render(buffer, None).
FrameToks(flen) == [i \in 1..flen |-> Tok("frame", i, 0)]

\* Mutant of size: the configured fallback is ignored.
size_NoFallback(term, dflt) ==
    IF term # Err THEN Ok(term[1]) ELSE Err

\* fn size(&self)
size(term, dflt) ==
    IF term # Err THEN Ok(term[1])
    ELSE IF dflt # None THEN Ok(dflt[1])
    ELSE Err

\* Mutant of render_general: the queue is drained before the frame is drawn.
render_general_DrainFirst(q, mode, rows, draw) ==
    LET limit == Limit(mode, q, rows, IF draw = Err THEN 0 ELSE draw[1])
        d == LinesExt_render(q, limit)
    IN  IF draw = Err
        THEN [ok |-> FALSE, to_emit |-> d.rest,
              buffer |-> << Tok("move_up", 0, 0) >> \o d.out]
        ELSE [ok |-> TRUE, to_emit |-> d.rest,
              buffer |-> << Tok("move_up", 0, 0) >> \o d.out
                         \o FrameToks(draw[1])
                         \o << Tok("clear_down", 0, 0) >>]

\* Mutant of render_general: the frame is written before the drained lines.
render_general_FrameFirst(q, mode, rows, draw) ==
    IF draw = Err
    THEN [ok |-> FALSE, to_emit |-> q, buffer |-> << Tok("move_up", 0, 0) >>]
    ELSE LET limit == Limit(mode, q, rows, draw[1])
             d == LinesExt_render(q, limit)
         IN  [ok |-> TRUE, to_emit |-> d.rest,
              buffer |-> << Tok("move_up", 0, 0) >>
                         \o FrameToks(draw[1]) \o d.out
                         \o << Tok("clear_down", 0, 0) >>]

\* Mutant of render_general: the drained lines are not written to the buffer.
render_general_Drop(q, mode, rows, draw) ==
    IF draw = Err
    THEN [ok |-> FALSE, to_emit |-> q, buffer |-> << Tok("move_up", 0, 0) >>]
    ELSE LET limit == Limit(mode, q, rows, draw[1])
             d == LinesExt_render(q, limit)
         IN  [ok |-> TRUE, to_emit |-> d.rest,
              buffer |-> << Tok("move_up", 0, 0) >>
                         \o FrameToks(draw[1])
                         \o << Tok("clear_down", 0, 0) >>]

\* fn render_general: `draw` is what self.root.draw returns, Ok(the number
\* of lines of the frame) or Err.
render_general(q, mode, rows, draw) ==
    IF draw = Err
    THEN [ok |-> FALSE, to_emit |-> q, buffer |-> << Tok("move_up", 0, 0) >>]
    ELSE LET limit == Limit(mode, q, rows, draw[1])
             d == LinesExt_render(q, limit)
         IN  [ok |-> TRUE, to_emit |-> d.rest,
              buffer |-> << Tok("move_up", 0, 0) >> \o d.out
                         \o FrameToks(draw[1])
                         \o << Tok("clear_down", 0, 0) >>]

\* Mutant of render_with_mode: a failed write puts the drained lines back.
render_with_mode_Restore(q, dflt, mode, term, draw, wr) ==
    LET sz == size(term, dflt) IN
    IF sz = Err
    THEN [res |-> "Err", fault |-> "size", to_emit |-> q, sink |-> << >>,
          size |-> sz, term |-> term, drew |-> FALSE]
    ELSE LET g == render_general(q, mode, sz[1], draw) IN
         IF ~g.ok
         THEN [res |-> "Err", fault |-> "draw", to_emit |-> g.to_emit,
               sink |-> << >>, size |-> sz, term |-> term, drew |-> TRUE]
         ELSE [res |-> IF wr THEN "Ok" ELSE "Err",
               fault |-> IF wr THEN "none" ELSE "write",
               to_emit |-> IF wr THEN g.to_emit ELSE q,
               sink |-> << SinkEvent("output", g.buffer, wr) >>,
               size |-> sz, term |-> term, drew |-> TRUE]

\* fn render_with_mode: `term` is what terminal::size() returns, `wr` whether
\* self.output.output(buffer) succeeds; `drew` tells whether render_general,
\* and with it Canvas::draw, was called.
render_with_mode(q, dflt, mode, term, draw, wr) ==
    LET sz == size(term, dflt) IN
    IF sz = Err
    THEN [res |-> "Err", fault |-> "size", to_emit |-> q, sink |-> << >>,
          size |-> sz, term |-> term, drew |-> FALSE]
    ELSE LET g == render_general(q, mode, sz[1], draw) IN
         IF ~g.ok
         THEN [res |-> "Err", fault |-> "draw", to_emit |-> g.to_emit,
               sink |-> << >>, size |-> sz, term |-> term, drew |-> TRUE]
         ELSE [res |-> IF wr THEN "Ok" ELSE "Err",
               fault |-> IF wr THEN "none" ELSE "write",
               to_emit |-> g.to_emit,
               sink |-> << SinkEvent("output", g.buffer, wr) >>,
               size |-> sz, term |-> term, drew |-> TRUE]

\* History record of a composition pass.
PassRec(q, mode, draw, r) ==
    [mode |-> mode, q0 |-> q, term |-> r.term, size |-> r.size,
     drew |-> r.drew, draw |-> draw, fault |-> r.fault]

NoPass == [mode |-> "none", q0 |-> << >>, term |-> Err, size |-> Err,
           drew |-> FALSE, draw |-> Err, fault |-> "none"]

\* History record of an API call: the queue and the number of delayed lines
\* at its entry (for emit_now: at the entry of its render), the composition
\* passes it started and its result.
CallRec(op, q, d, passes, result) ==
    [op |-> op, q0 |-> q, delayed0 |-> d, passes |-> passes,
     result |-> result]

\* The log lines of a buffer, in buffer order.
BufferLines(b) ==
    LET logs == SelectSeq(b, LAMBDA t : t.t = "log")
    IN  [i \in 1..Len(logs) |-> Line(logs[i].id, logs[i].len)]

\* The log lines of the buffers the Output Sink accepted among `events`.
RECURSIVE LogLines(_)
LogLines(events) ==
    IF events = << >> THEN << >>
    ELSE LET e == Head(events)
         IN  (IF e.op = "output" /\ e.ret THEN BufferLines(e.buffer)
              ELSE << >>) \o LogLines(Tail(events))

\* The lines a caller may pass to emit: up to MaxBatch lines, numbered on
\* from the lines emitted so far.
Batches ==
    { [i \in 1..k |-> Line(Len(emitted) + i, len)] :
        k \in 0..Min(MaxBatch, MaxLines - Len(emitted)), len \in LineLens }

\* What terminal::size() and Canvas::draw may return.
TermResults == {Err} \cup {Ok(r) : r \in Rows}
DrawResults == {Err} \cup {Ok(f) : f \in FrameLens}

\* ------------------------------------------------------------------------
Init ==
    /\ to_emit = << >>
    /\ default_size \in {None, Some(2)}
    /\ sink = << >>
    /\ delivered = << >>
    /\ pc = "idle"
    /\ anything_emitted = TRUE
    /\ has_rendered = FALSE
    /\ emitted = << >>
    /\ failed = FALSE
    /\ delayed = 0
    /\ call = CallRec("none", << >>, 0, 0, "none")
    /\ pass = NoPass
    /\ ncalls = 0

\* Mutant of CanCall: finalize does not consume the console.
CanCall_AfterFinalize == pc # "render_loop" /\ ncalls < MaxCalls

\* A method taking &mut self can be called: no call is in progress and
\* finalize(mut self) has not consumed the console.
CanCall == pc = "idle" /\ ncalls < MaxCalls

\* Mutant of EmitAppend: the lines are put at the head of the queue.
EmitAppend_Head(q, lines) == lines \o q

\* self.to_emit.append(&mut lines);
EmitAppend(q, lines) == q \o lines

\* pub fn emit(&mut self, mut lines: Lines)
emit ==
    /\ CanCall
    /\ \E lines \in Batches :
        /\ to_emit' = EmitAppend(to_emit, lines)
        /\ emitted' = emitted \o lines
    /\ call' = CallRec("emit", to_emit, delayed, 0, "Ok")
    /\ sink' = << >>
    /\ pass' = NoPass
    /\ ncalls' = ncalls + 1
    /\ UNCHANGED << default_size, delivered, pc, anything_emitted,
                    has_rendered, failed, delayed >>

\* pub fn render(&mut self, state): entry, the two locals are initialised.
render ==
    /\ CanCall
    /\ pc' = "render_loop"
    /\ anything_emitted' = TRUE
    /\ has_rendered' = FALSE
    /\ call' = CallRec("render", to_emit, delayed, 0, "running")
    /\ sink' = << >>
    /\ pass' = NoPass
    /\ ncalls' = ncalls + 1
    /\ UNCHANGED << to_emit, default_size, delivered, emitted, failed,
                    delayed >>

\* Mutant of emit_now: the lines are queued but render is not called.
emit_now_NoRender ==
    /\ pc = "idle"
    /\ ncalls + 2 <= MaxCalls
    /\ \E lines \in Batches :
        /\ to_emit' = EmitAppend(to_emit, lines)
        /\ emitted' = emitted \o lines
        /\ call' = CallRec("emit_now", EmitAppend(to_emit, lines), delayed,
                           0, "Ok")
    /\ sink' = << >>
    /\ pass' = NoPass
    /\ ncalls' = ncalls + 2
    /\ UNCHANGED << default_size, delivered, failed, delayed, pc,
                    anything_emitted, has_rendered >>

\* pub fn emit_now(&mut self, lines, state): self.emit(lines), then the
\* entry of self.render(state).
emit_now ==
    /\ pc = "idle"
    /\ ncalls + 2 <= MaxCalls
    /\ \E lines \in Batches :
        /\ to_emit' = EmitAppend(to_emit, lines)
        /\ emitted' = emitted \o lines
        /\ call' = CallRec("emit_now", EmitAppend(to_emit, lines), delayed,
                           0, "running")
    /\ pc' = "render_loop"
    /\ anything_emitted' = TRUE
    /\ has_rendered' = FALSE
    /\ sink' = << >>
    /\ pass' = NoPass
    /\ ncalls' = ncalls + 2
    /\ UNCHANGED << default_size, delivered, failed, delayed >>

\* Mutant of LoopCond: no pass is made on an empty queue.
LoopCond_SkipEmpty(hr, ae, q) == q # << >> /\ (~hr \/ ae)

\* while !has_rendered || (anything_emitted && !self.to_emit.is_empty())
LoopCond(hr, ae, q) == ~hr \/ (ae /\ q # << >>)

\* Mutant of ShouldBreak: the answer of should_render is ignored.
ShouldBreak_Never(sr) == FALSE

\* if !self.output.should_render() { break; }
ShouldBreak(sr) == ~sr

\* Mutant of AnythingEmitted: true when the pass did drain something.
AnythingEmitted_Drained(last_len, q) == last_len # Len(q)

\* anything_emitted = last_len == self.to_emit.len();
AnythingEmitted(last_len, q) == last_len = Len(q)

\* The return of render: the locals go out of scope.
RenderReturn(result, np) ==
    /\ pc' = "idle"
    /\ anything_emitted' = TRUE
    /\ has_rendered' = FALSE
    /\ call' = [call EXCEPT !.result = result, !.passes = @ + np]

\* The history kept of a composition pass with outcome r on queue q.
PassHistory(q, mode, draw, r) ==
    /\ delivered' = delivered \o LogLines(r.sink)
    /\ pass' = PassRec(q, mode, draw, r)
    /\ failed' = (failed \/ r.fault \in {"draw", "write"})
    /\ delayed' = saturating_sub(delayed, Len(q) - Len(r.to_emit))

\* One evaluation of the `while` condition of render and, when it holds,
\* one execution of the loop body, should_render answering from SR,
\* terminal::size() from T, Canvas::draw from D and output() from W.
RenderLoop(SR, T, D, W) ==
    /\ pc = "render_loop"
    /\ IF ~LoopCond(has_rendered, anything_emitted, to_emit)
       THEN /\ RenderReturn("Ok", 0)
            /\ UNCHANGED << to_emit, sink, delivered, pass, failed, delayed >>
       ELSE \E sr \in SR :
            IF ShouldBreak(sr)
            THEN /\ RenderReturn("Ok", 0)
                 /\ sink' = Append(sink, SinkEvent("should_render", << >>, sr))
                 /\ delayed' = Len(to_emit)
                 /\ UNCHANGED << to_emit, delivered, pass, failed >>
            ELSE \E term \in T, draw \in D, wr \in W :
                 LET last_len == Len(to_emit)
                     r == render_with_mode(to_emit, default_size, "Normal",
                                           term, draw, wr)
                 IN  /\ to_emit' = r.to_emit
                     /\ sink' = Append(sink,
                                   SinkEvent("should_render", << >>, sr))
                                \o r.sink
                     /\ PassHistory(to_emit, "Normal", draw, r)
                     /\ IF r.res = "Err"
                        THEN RenderReturn("Err", 1)
                        ELSE /\ anything_emitted' =
                                    AnythingEmitted(last_len, r.to_emit)
                             /\ has_rendered' = TRUE
                             /\ pc' = pc
                             /\ call' = [call EXCEPT !.passes = @ + 1]
    /\ UNCHANGED << default_size, emitted, ncalls >>

\* The loop of render against any Output Sink, terminal and Frame Source.
render_loop == RenderLoop(BOOLEAN, TermResults, DrawResults, BOOLEAN)

\* Mutant of FinalizeSink: the teardown is invoked before the pass.
FinalizeSink_TeardownFirst(r, fin) ==
    << SinkEvent("finalize", << >>, fin) >> \o r.sink

\* self.render_with_mode(state, DrawMode::Final)?; self.output.finalize()?;
\* the calls finalize makes on the Output Sink, r being the outcome of the
\* pass and fin the result of the teardown.
FinalizeSink(r, fin) ==
    r.sink \o (IF r.res = "Ok" THEN << SinkEvent("finalize", << >>, fin) >>
               ELSE << >>)

\* pub fn finalize(mut self, state): one Final pass, then the teardown of
\* the Output Sink; self is consumed whatever the result.
finalize ==
    /\ CanCall
    /\ \E term \in TermResults, draw \in DrawResults, wr \in BOOLEAN,
          fin \in BOOLEAN :
        LET r == render_with_mode(to_emit, default_size, "Final",
                                  term, draw, wr)
        IN  /\ to_emit' = r.to_emit
            /\ PassHistory(to_emit, "Final", draw, r)
            /\ sink' = FinalizeSink(r, fin)
            /\ call' = CallRec("finalize", to_emit, delayed, 1,
                               IF r.res = "Ok" /\ fin THEN "Ok" ELSE "Err")
    /\ pc' = "done"
    /\ ncalls' = ncalls + 1
    /\ UNCHANGED << default_size, anything_emitted, has_rendered, emitted >>

\* Mutant of ClearSink: clear asks should_render first and writes nothing
\* when refused.
ClearSink_Gated(sr, wr) ==
    << SinkEvent("should_render", << >>, sr) >>
    \o (IF sr THEN << SinkEvent("output", << Tok("erase", 0, 0) >>, wr) >>
        ELSE << >>)

\* self.root.clear(&mut buffer)?; self.output.output(buffer): the calls
\* clear makes on the Output Sink; sr is what should_render would answer.
ClearSink(sr, wr) == << SinkEvent("output", << Tok("erase", 0, 0) >>, wr) >>

\* pub fn clear(&mut self)
clear ==
    /\ CanCall
    /\ \E sr \in BOOLEAN, wr \in BOOLEAN :
        /\ sink' = ClearSink(sr, wr)
        /\ call' = CallRec("clear", to_emit, delayed, 0,
                           IF wr THEN "Ok" ELSE "Err")
        /\ failed' = (failed \/ ~wr)
    /\ pass' = NoPass
    /\ ncalls' = ncalls + 1
    /\ UNCHANGED << to_emit, default_size, delivered, pc, anything_emitted,
                    has_rendered, emitted, delayed >>

Next == emit \/ render \/ emit_now \/ render_loop \/ finalize \/ clear

Spec == Init /\ [][Next]_vars

\* A render call that has been entered keeps executing.
FairSpec == Spec /\ WF_vars(render_loop)

\* The caller keeps calling render (the call is not counted in ncalls), on a
\* console whose Output Sink permits every render and whose terminal, Frame
\* Source and Output Sink never fail.
render_again ==
    /\ pc = "idle"
    /\ pc' = "render_loop"
    /\ anything_emitted' = TRUE
    /\ has_rendered' = FALSE
    /\ call' = CallRec("render", to_emit, delayed, 0, "running")
    /\ sink' = << >>
    /\ pass' = NoPass
    /\ UNCHANGED << to_emit, default_size, delivered, emitted, failed,
                    delayed, ncalls >>

render_permitted ==
    RenderLoop({TRUE}, TermResults \ {Err}, DrawResults \ {Err}, {TRUE})

\* Lines are only queued before the first render call.
emit_first == call.op \in {"none", "emit"} /\ emit

DrainNext == emit_first \/ render_again \/ render_permitted

DrainSpec ==
    /\ Init
    /\ [][DrainNext]_vars
    /\ WF_vars(render_again)
    /\ WF_vars(render_permitted)

\* ------------------------------------------------------------------------
\* Properties

\* The calls of output() among the Output Sink calls of the current API call.
OutputEvents == SelectSeq(sink, LAMBDA e : e.op = "output")

\* The last composition pass ran render_general to its end.
PassDone == pass.mode # "none" /\ pass.fault \in {"none", "write"}

\* The buffer composed by the last composition pass (when PassDone).
PassBuffer == OutputEvents[Len(OutputEvents)].buffer

\* What the drain limit of the last pass is in plain integer arithmetic.
PlainLimit == Max(MINIMUM_EMIT, pass.size[1] - pass.draw[1])

\* The current API call is a render call that has returned.
RenderReturned == call.op \in {"render", "emit_now"} /\ pc = "idle"

\* should_render refused the current render call at its first consultation.
Refused == sink # << >> /\ sink[1].op = "should_render" /\ ~sink[1].ret

\* Every answer should_render gave during the current API call was true.
AlwaysPermitted ==
    \A i \in 1..Len(sink) : sink[i].op = "should_render" => sink[i].ret

\* C1: as long as no draw and no Output Sink write has failed, the log lines
\* of the buffers written so far, in write order, followed by the pending
\* queue, are exactly the lines passed to emit, in emit order.
C1_NoLineLost == ~failed => delivered \o to_emit = emitted

C1_Witness ==
    /\ ~failed
    /\ PassDone
    /\ Len(delivered) >= MINIMUM_EMIT
    /\ to_emit # << >>

\* C2: a Normal pass over a queue that is not oversized drains exactly the
\* first min(queueLength, max(MINIMUM_EMIT, R - F)) lines, in order, and
\* leaves the others queued in order; with F >= R that is
\* min(queueLength, MINIMUM_EMIT).
C2_NormalDrain ==
    (PassDone /\ pass.mode = "Normal"
        /\ SumLen(pass.q0) <= MAX_GRAPHEME_BUFFER) =>
    LET n == Min(Len(pass.q0), PlainLimit)
    IN  /\ BufferLines(PassBuffer) = SubSeq(pass.q0, 1, n)
        /\ to_emit = SubSeq(pass.q0, n + 1, Len(pass.q0))
        /\ (pass.draw[1] >= pass.size[1] =>
                Len(pass.q0) - Len(to_emit)
                    = Min(Len(pass.q0), MINIMUM_EMIT))

C2_Witness ==
    /\ PassDone /\ pass.mode = "Normal"
    /\ SumLen(pass.q0) <= MAX_GRAPHEME_BUFFER
    /\ pass.draw[1] >= pass.size[1]
    /\ Len(pass.q0) > MINIMUM_EMIT
    /\ Len(to_emit) = Len(pass.q0) - MINIMUM_EMIT

\* C3: a Normal pass over a queue whose total grapheme length exceeds
\* MAX_GRAPHEME_BUFFER drains the whole queue, whatever R and F.
C3_OversizedDrain ==
    (PassDone /\ pass.mode = "Normal"
        /\ SumLen(pass.q0) > MAX_GRAPHEME_BUFFER) =>
    /\ to_emit = << >>
    /\ BufferLines(PassBuffer) = pass.q0

C3_Witness ==
    /\ PassDone /\ pass.mode = "Normal"
    /\ SumLen(pass.q0) > MAX_GRAPHEME_BUFFER
    /\ Len(pass.q0) > PlainLimit
    /\ to_emit = << >>

\* C4: a Final pass drains the whole queue, whatever its size, R and F.
C4_FinalDrain ==
    (PassDone /\ pass.mode = "Final") =>
    /\ to_emit = << >>
    /\ BufferLines(PassBuffer) = pass.q0

C4_Witness ==
    /\ PassDone /\ pass.mode = "Final"
    /\ SumLen(pass.q0) <= MAX_GRAPHEME_BUFFER
    /\ Len(pass.q0) > PlainLimit
    /\ to_emit = << >>

\* C5: a render call that should_render refuses hands no buffer to the
\* Output Sink, starts no composition pass and leaves the queue as it was.
C5_RefusedRender ==
    (call.op = "render" /\ Refused) =>
    /\ OutputEvents = << >>
    /\ call.passes = 0
    /\ to_emit = call.q0
    /\ pc = "idle"

C5_Witness ==
    /\ call.op = "render" /\ Refused
    /\ to_emit # << >>
    /\ to_emit = call.q0

\* C6 (as claimed): the first render that should_render permits, and that
\* succeeds, emits every line that was queued when a render was refused, in
\* order and ahead of the lines queued since, together with the frame.
C6_DelayedLinesEmitted ==
    (RenderReturned /\ call.result = "Ok" /\ call.passes > 0
        /\ AlwaysPermitted /\ call.delayed0 > 0) =>
    /\ Len(LogLines(sink)) >= call.delayed0
    /\ SubSeq(LogLines(sink), 1, call.delayed0)
            = SubSeq(call.q0, 1, call.delayed0)
    /\ Len(SelectSeq(PassBuffer, LAMBDA t : t.t = "frame")) = pass.draw[1]

C8_RenderDrainsAll ==
    (RenderReturned /\ call.result = "Ok" /\ AlwaysPermitted) =>
    to_emit = << >>

\* C9: finalize makes exactly one composition pass, in Final mode, without
\* consulting should_render; when the pass succeeds its buffer holds every
\* queued line and the frame and is written before the one teardown call;
\* when the pass fails there is no teardown.
C9_Finalize ==
    call.op = "finalize" =>
    /\ call.passes = 1
    /\ pass.mode = "Final"
    /\ \A i \in 1..Len(sink) : sink[i].op # "should_render"
    /\ Len(SelectSeq(sink, LAMBDA e : e.op = "finalize")) =
            (IF pass.fault = "none" THEN 1 ELSE 0)
    /\ pass.fault = "none" =>
        /\ Len(sink) = 2
        /\ sink[1].op = "output" /\ sink[1].ret
        /\ BufferLines(sink[1].buffer) = call.q0
        /\ Len(SelectSeq(sink[1].buffer, LAMBDA t : t.t = "frame"))
                = pass.draw[1]
        /\ sink[2].op = "finalize"
        /\ to_emit = << >>

C9_Witness ==
    /\ call.op = "finalize"
    /\ pass.fault = "none"
    /\ call.delayed0 > MINIMUM_EMIT
    /\ pass.draw[1] > 0
    /\ Len(sink) = 2 /\ sink[2].op = "finalize"

\* C10: once finalize has been called it stays the last call made on the
\* console: the teardown was invoked at most once, and the queue and the
\* calls made on the Output Sink are as finalize left them.
C10_FinalizeTerminal ==
    pc = "done" =>
    /\ call.op = "finalize"
    /\ Len(SelectSeq(sink, LAMBDA e : e.op = "finalize")) <= 1
    /\ Len(OutputEvents) <= 1
    /\ (sink # << >> => sink[Len(sink)].op \in
            (IF pass.fault = "none" THEN {"finalize"} ELSE {"output"}))
    /\ to_emit = (IF PassDone THEN << >> ELSE call.q0)

C10_Witness ==
    /\ pc = "done"
    /\ ncalls < MaxCalls
    /\ Len(SelectSeq(sink, LAMBDA e : e.op = "finalize")) = 1
    /\ emitted # << >>

\* The elements of a sequence.
Range(f) == { f[i] : i \in DOMAIN f }

C12_EmitAppends ==
    call.op = "emit" =>
    LET old == Len(call.q0)
        new == Len(to_emit) - old
    IN  /\ new >= 0
        /\ SubSeq(to_emit, 1, old) = call.q0
        /\ SubSeq(to_emit, old + 1, Len(to_emit))
                = SubSeq(emitted, Len(emitted) - new + 1, Len(emitted))
        /\ sink = << >>
        /\ pass = NoPass
        /\ Range(SubSeq(to_emit, old + 1, Len(to_emit)))
                \cap Range(delivered) = {}
        /\ pc = "idle"

C12_Witness ==
    /\ call.op = "emit"
    /\ call.q0 # << >>
    /\ Len(to_emit) > Len(call.q0)
    /\ delayed > 0

\* C13: the step that enters emit_now(lines, state) leads to the state that
\* emit(lines) followed by the entry of render(state) leads to (the history
\* of the call apart, which names emit_now); from there both run the same
\* loop, so queue, buffers written and result agree.
C13_EmitNowIsEmitThenRender ==
    [][ (pc = "idle" /\ call'.op = "emit_now") =>
        \E lines \in Batches :
            LET afterEmit == EmitAppend(to_emit, lines)
            IN  /\ emitted' = emitted \o lines
                /\ to_emit' = afterEmit
                /\ pc' = "render_loop"
                /\ anything_emitted' = TRUE
                /\ has_rendered' = FALSE
                /\ sink' = << >>
                /\ pass' = NoPass
                /\ call' = [CallRec("render", afterEmit, delayed, 0,
                                    "running") EXCEPT !.op = "emit_now"]
                /\ ncalls' = ncalls + 2
                /\ UNCHANGED << default_size, delivered, failed, delayed >>
      ]_vars

C13_Witness ==
    /\ call.op = "emit_now"
    /\ pc = "idle"
    /\ call.result = "Ok"
    /\ call.passes = 1
    /\ Len(call.q0) > MINIMUM_EMIT
    /\ LogLines(sink) # << >>

\* should_render permitted the current render call at its first consultation.
Permitted == sink # << >> /\ sink[1].op = "should_render" /\ sink[1].ret

C14_WitnessBacklog ==
    /\ call.op = "render" /\ Permitted
    /\ pc = "idle" /\ call.result = "Ok"
    /\ SumLen(call.q0) <= MAX_GRAPHEME_BUFFER
    /\ Len(call.q0) > PlainLimit
    /\ PlainLimit > MINIMUM_EMIT
    /\ Len(to_emit) = Len(call.q0) - PlainLimit

\* C15: every Normal pass on a non-empty queue drains at least
\* min(queueLength, MINIMUM_EMIT) >= 1 lines, whatever R and F; and when
\* render keeps being called, permitted and without failure, a non-empty
\* queue eventually becomes empty.
C15_ForwardProgress ==
    /\ [](( PassDone /\ pass.mode = "Normal" /\ pass.q0 # << >>) =>
            /\ Len(pass.q0) - Len(to_emit)
                    >= Min(Len(pass.q0), MINIMUM_EMIT)
            /\ Len(pass.q0) - Len(to_emit) >= 1)
    /\ ((to_emit # << >>) ~> (to_emit = << >>))

C15_Witness ==
    /\ call.op = "render" /\ pc = "idle"
    /\ pass.q0 # << >>
    /\ pass.draw[1] >= pass.size[1]
    /\ to_emit = << >>
    /\ Len(delivered) > Len(pass.q0)
    /\ ~is_big(emitted)

\* C16: a pass of render that leaves the queue length unchanged met an
\* empty queue, and every render call that has been entered returns.
C16_RenderTerminates ==
    /\ []((call.op \in {"render", "emit_now"} /\ PassDone
                /\ Len(to_emit) = Len(pass.q0)) => pass.q0 = << >>)
    /\ ((pc = "render_loop") ~> (pc = "idle"))

C16_Witness ==
    /\ call.op = "render" /\ pc = "idle"
    /\ AlwaysPermitted
    /\ call.result = "Ok"
    /\ call.passes = 1
    /\ Len(call.q0) > PlainLimit
    /\ anything_emitted /\ ~has_rendered

\* The lines passed to emit that are neither pending nor in a buffer the
\* Output Sink accepted.
Lost == Range(emitted) \ (Range(delivered) \cup Range(to_emit))

\* C17: when the write of a pass fails, the call returns the error, the
\* lines the pass drained are gone from the queue and in no accepted buffer,
\* and no later call delivers a lost line.
C17_WriteFailureLosesLines ==
    /\ [](pass.fault = "write" =>
            /\ call.result = "Err"
            /\ to_emit = SubSeq(pass.q0, Len(BufferLines(PassBuffer)) + 1,
                                Len(pass.q0))
            /\ Range(BufferLines(PassBuffer)) \subseteq Lost
            /\ (pass.q0 # << >> => BufferLines(PassBuffer) # << >>))
    /\ [][Lost \subseteq Lost']_vars

C17_Witness ==
    /\ Lost # {}
    /\ call.op = "finalize" /\ call.result = "Ok"
    /\ pass.q0 # << >>
    /\ to_emit = << >>

\* C18: when the draw of a pass fails, the call in progress returns the
\* error, the Output Sink gets no buffer and no teardown, and the pending
\* queue is the one the pass started with.
C18_DrawFailure ==
    pass.fault = "draw" =>
        /\ call.result = "Err"
        /\ pc # "render_loop"
        /\ \A i \in 1..Len(sink) : sink[i].op = "should_render"
        /\ to_emit = pass.q0

C18_Witness ==
    /\ pass.fault = "draw"
    /\ call.op = "render"
    /\ Len(pass.q0) > MINIMUM_EMIT
    /\ pass.size # Err

\* C19: a pass uses the live size when the query succeeds and the fallback
\* when it fails and one is configured; when it fails and none is
\* configured the call returns the error, draw is not called, nothing is
\* written and the queue is unchanged.
C19_SizeFallback ==
    pass.mode # "none" =>
        /\ pass.term # Err => pass.size = pass.term /\ pass.drew
        /\ (pass.term = Err /\ default_size # None) =>
                /\ pass.size = Ok(default_size[1])
                /\ pass.drew
                /\ pass.fault # "size"
                /\ (pass.draw # Err => PassDone)
        /\ (pass.term = Err /\ default_size = None) =>
                /\ pass.fault = "size"
                /\ call.result = "Err"
                /\ ~pass.drew
                /\ OutputEvents = << >>
                /\ to_emit = pass.q0

C19_Witness ==
    /\ pass.term = Err /\ default_size # None
    /\ pass.fault = "none"
    /\ pass.mode = "Normal"
    /\ pass.q0 # << >>
    /\ Len(pass.q0) - Len(to_emit) = Min(Len(pass.q0), PlainLimit)

C19_WitnessNoFallback ==
    /\ pass.term = Err /\ default_size = None
    /\ pass.fault = "size"
    /\ pass.q0 # << >>

\* C20: the buffer of a pass is the cursor repositioning, the drained lines
\* in queue order, the whole frame, then the clear-from-cursor-down, and the
\* passes of a call that ran to their write handed over one buffer each.
C20_BufferOrder ==
    PassDone =>
        LET n == Len(pass.q0) - Len(to_emit)
        IN  /\ PassBuffer = << Tok("move_up", 0, 0) >>
                    \o [i \in 1..n |-> LogTok(pass.q0[i])]
                    \o FrameToks(pass.draw[1])
                    \o << Tok("clear_down", 0, 0) >>
            /\ Len(OutputEvents) = call.passes

C20_Witness ==
    /\ PassDone /\ pass.fault = "none"
    /\ pass.draw[1] > pass.size[1]
    /\ Len(pass.q0) - Len(to_emit) >= 2

====
